---- MODULE Spec2Model ----
(***************************************************************************)
(* Drill-down detail panel of frontend/src/App.tsx: the modal state        *)
(* (selectedResult, historyStack), the enrichment state (explanation,      *)
(* relatedBooks, explaining, loadingRelated), the requests in flight and   *)
(* the browser history entry the modal records.                            *)
(*                                                                         *)
(* React 18 flushes the state updates of a discrete event (click,          *)
(* popstate) and re-registers the popstate effect before the next event    *)
(* is dispatched, and batches the updates made in one promise              *)
(* continuation; every handler and every continuation is one atomic step   *)
(* that reads the state of the latest render.                              *)
(***************************************************************************)
EXTENDS Integers, Sequences, FiniteSets, Bags

VARIABLES
    query,           \* App.tsx:14   search box text
    selectedResult,  \* App.tsx:21   the frame shown in the modal, or None
    historyStack,    \* App.tsx:22   frames drilled through, oldest first
    explanation,     \* App.tsx:23   <<>> for null, else <<item>>
    explaining,      \* App.tsx:24
    relatedBooks,    \* App.tsx:47
    loadingRelated,  \* App.tsx:48
    inflight,        \* bag of the Promise.allSettled pairs not yet continued:
                     \* [frame, expl, rel, latest], expl and rel "pending" or
                     \* "settled", latest iff no navigation followed the issue
    requested,       \* context string of the explanation request issued last
    hostEntries,     \* window.history: modal entries pushed and not unwound
    pendingBack,     \* window.history.back() traversals queued, not delivered
    last             \* the handler that ran in the latest step (observer)

vars == <<query, selectedResult, historyStack, explanation, explaining,
          relatedBooks, loadingRelated, inflight, requested, hostEntries,
          pendingBack, last>>

nav    == <<selectedResult, historyStack>>
enrich == <<explanation, explaining, relatedBooks, loadingRelated>>
host   == <<hostEntries, pendingBack>>

(***************************************************************************)
(* Bounds of the model.                                                    *)
(***************************************************************************)
MaxDepth    == 2    \* longest historyStack explored
MaxInFlight == 2    \* most enrichments outstanding at once
MaxPending  == 1    \* most queued history.back() traversals
MaxRepeat   == 2    \* the same when dismissal is repeated

None    == "None"
Frames  == {"A", "B", "C"}
Queries == {"", "q"}

\* result.book.title: the title identifies the book in this model
Title(f) == f

\* api.getRelatedBooks(title) when it answers with books: the other books
FrameOrder == <<"A", "B", "C">>

IsNot(f, g) == g # f

RelatedOf(f) == LET Other(g) == IsNot(f, g) IN SelectSeq(FrameOrder, Other)

\* the values api.getRelatedBooks may be fulfilled with for a title
RelatedAnswers(f) == {<<>>, RelatedOf(f)}

\* related.value as the continuation reads it: absent on a rejected request
RelatedValues(f, relStatus) ==
    IF relStatus = "fulfilled" THEN RelatedAnswers(f) ELSE {<<>>}

Range(s) == {s[i] : i \in 1..Len(s)}

(***************************************************************************)
(* State after construction: the useState initial values, an untouched     *)
(* browser history, nothing requested.                                     *)
(***************************************************************************)
Init ==
    /\ query = ""
    /\ selectedResult = None
    /\ historyStack = <<>>
    /\ explanation = <<>>
    /\ explaining = FALSE
    /\ relatedBooks = <<>>
    /\ loadingRelated = FALSE
    /\ inflight = EmptyBag
    /\ requested = <<>>
    /\ hostEntries = 0
    /\ pendingBack = 0
    /\ last = [op |-> "init", frame |-> None, prevSize |-> 0, latest |-> TRUE,
               expl |-> "none", rel |-> "none"]

\* history.length + (current present ? 1 : 0)
StackSize == Len(historyStack) + IF selectedResult # None THEN 1 ELSE 0

\* op ran in this step, from a stack of prevSize frames; frame is the frame
\* it was called with
Ran(op, frame) ==
    last' = [op |-> op, frame |-> frame, prevSize |-> StackSize,
             latest |-> TRUE, expl |-> "none", rel |-> "none"]

\* the continuation of pair p ran in this step and read these two statuses
RanContinuation(p, explStatus, relStatus) ==
    last' = [op |-> "continue", frame |-> p.frame, prevSize |-> StackSize,
             latest |-> p.latest, expl |-> explStatus, rel |-> relStatus]

(***************************************************************************)
(* handleReadMore, App.tsx:240-271                                         *)
(***************************************************************************)
\* variants of the guard: an entry per call, and a guard on the stack
PushesEntry_Always == TRUE

PushesEntry_WhenStackEmpty == historyStack = <<>>

\* if (!selectedResult) window.history.pushState({ modal: true }, '')
PushesEntry == selectedResult = None

\* variants of the update: the current frame put in front, and the stack
\* kept when not drilling
HistoryAfterReadMore_Prepend(isDrillingDown) ==
    IF isDrillingDown /\ selectedResult # None
    THEN <<selectedResult>> \o historyStack
    ELSE IF ~isDrillingDown THEN <<>> ELSE historyStack

HistoryAfterReadMore_KeepOnOpen(isDrillingDown) ==
    IF isDrillingDown /\ selectedResult # None
    THEN Append(historyStack, selectedResult)
    ELSE historyStack

\* the historyStack update of lines 248-252
HistoryAfterReadMore(isDrillingDown) ==
    IF isDrillingDown /\ selectedResult # None
    THEN Append(historyStack, selectedResult)
    ELSE IF ~isDrillingDown THEN <<>> ELSE historyStack

\* variant: the title whatever the query is
ContextString_AlwaysTitle(f) == Title(f)

\* query || result.book.title
ContextString(f) == IF query # "" THEN query ELSE Title(f)

\* the pairs in flight once a further pair is issued: none of them is the
\* latest any more
Superseded ==
    LET old == {e \in BagToSet(inflight) : e.latest}
    IN  IF old = {} THEN inflight
        ELSE LET e == CHOOSE x \in old : TRUE
             IN (inflight (-) SetToBag({e}))
                (+) SetToBag({[e EXCEPT !.latest = FALSE]})

\* variant: only the explanation is requested
IssueRequests_OnlyExplanation(f) ==
    /\ inflight' = Superseded (+) SetToBag({[frame |-> f, expl |-> "pending",
                                            rel |-> "settled",
                                            latest |-> TRUE]})
    /\ requested' = <<ContextString(f)>>

\* api.explainRecommendation(context, book, score) and
\* api.getRelatedBooks(title) handed to Promise.allSettled for frame f; the
\* pairs issued earlier are no longer the latest
IssueRequests(f) ==
    /\ inflight' = Superseded (+) SetToBag({[frame |-> f, expl |-> "pending",
                                            rel |-> "pending",
                                            latest |-> TRUE]})
    /\ requested' = <<ContextString(f)>>

\* variant: the related books of the frame left behind are kept
ResetEnrichment_KeepRelated ==
    /\ explaining' = TRUE
    /\ explanation' = <<>>
    /\ relatedBooks' = relatedBooks
    /\ loadingRelated' = TRUE

\* setExplaining(true); setExplanation(null); setRelatedBooks([]);
\* setLoadingRelated(true)
ResetEnrichment ==
    /\ explaining' = TRUE
    /\ explanation' = <<>>
    /\ relatedBooks' = <<>>
    /\ loadingRelated' = TRUE

handleReadMore(result, isDrillingDown) ==
    /\ BagCardinality(inflight) < MaxInFlight
    /\ Len(HistoryAfterReadMore(isDrillingDown)) <= MaxDepth
    /\ hostEntries' = IF PushesEntry THEN hostEntries + 1 ELSE hostEntries
    /\ historyStack' = HistoryAfterReadMore(isDrillingDown)
    /\ selectedResult' = result
    /\ ResetEnrichment
    /\ IssueRequests(result)
    /\ UNCHANGED <<query, pendingBack>>

(***************************************************************************)
(* handleBack, App.tsx:273-293                                             *)
(***************************************************************************)
\* variant: two frames are dropped
DropLast_Two(s) == SubSeq(s, 1, Len(s) - 2)

\* variant: the whole stack is dropped
DropLast_All(s) == <<>>

\* variant: curr.slice(1)
DropLast_First(s) == SubSeq(s, 2, Len(s))

\* curr.slice(0, -1)
DropLast(s) == SubSeq(s, 1, Len(s) - 1)

\* variant: the explanation of the frame left behind is kept
ResetEnrichmentOnBack_KeepExplanation ==
    /\ relatedBooks' = <<>>
    /\ explanation' = explanation
    /\ loadingRelated' = TRUE
    /\ explaining' = TRUE

\* setRelatedBooks([]); setExplanation(null); setLoadingRelated(true);
\* setExplaining(true)
ResetEnrichmentOnBack ==
    /\ relatedBooks' = <<>>
    /\ explanation' = <<>>
    /\ loadingRelated' = TRUE
    /\ explaining' = TRUE

\* variant: going back also unwinds the modal entry
handleBack_TraversesHost ==
    IF Len(historyStack) > 0
    THEN LET prev == historyStack[Len(historyStack)]
         IN /\ BagCardinality(inflight) < MaxInFlight
            /\ historyStack' = DropLast(historyStack)
            /\ selectedResult' = prev
            /\ ResetEnrichmentOnBack
            /\ IssueRequests(prev)
            /\ hostEntries' = hostEntries - 1
            /\ UNCHANGED <<query, pendingBack>>
    ELSE UNCHANGED <<query, selectedResult, historyStack, explanation,
                     explaining, relatedBooks, loadingRelated, inflight,
                     requested, hostEntries, pendingBack>>

\* variant: with nothing to go back to the panel is closed
handleBack_ClosesWhenEmpty ==
    IF Len(historyStack) > 0
    THEN LET prev == historyStack[Len(historyStack)]
         IN /\ BagCardinality(inflight) < MaxInFlight
            /\ historyStack' = DropLast(historyStack)
            /\ selectedResult' = prev
            /\ ResetEnrichmentOnBack
            /\ IssueRequests(prev)
            /\ UNCHANGED <<query, hostEntries, pendingBack>>
    ELSE /\ selectedResult' = None
         /\ UNCHANGED <<query, historyStack, explanation, explaining,
                        relatedBooks, loadingRelated, inflight, requested,
                        hostEntries, pendingBack>>

handleBack ==
    IF Len(historyStack) > 0
    THEN LET prev == historyStack[Len(historyStack)]
         IN /\ BagCardinality(inflight) < MaxInFlight
            /\ historyStack' = DropLast(historyStack)
            /\ selectedResult' = prev
            /\ ResetEnrichmentOnBack
            /\ IssueRequests(prev)
            /\ UNCHANGED <<query, hostEntries, pendingBack>>
    ELSE UNCHANGED <<query, selectedResult, historyStack, explanation,
                     explaining, relatedBooks, loadingRelated, inflight,
                     requested, hostEntries, pendingBack>>

(***************************************************************************)
(* closeModal, App.tsx:295-298, and handlePopState, App.tsx:30-39          *)
(***************************************************************************)
\* variant: the state is cleared by closeModal itself, as well as by popstate
closeModal_ClearsState ==
    /\ pendingBack' = pendingBack + 1
    /\ selectedResult' = None
    /\ historyStack' = <<>>
    /\ explanation' = <<>>
    /\ relatedBooks' = <<>>
    /\ UNCHANGED <<query, explaining, loadingRelated, inflight, requested,
                   hostEntries>>

\* window.history.back(): the traversal is queued, popstate comes later
closeModal ==
    /\ pendingBack' = pendingBack + 1
    /\ UNCHANGED <<query, selectedResult, historyStack, explanation,
                   explaining, relatedBooks, loadingRelated, inflight,
                   requested, hostEntries>>

\* variant: a popstate with no panel open clears the loading flags
handlePopState_ResetsFlags ==
    IF selectedResult # None
    THEN /\ selectedResult' = None
         /\ historyStack' = <<>>
         /\ explanation' = <<>>
         /\ relatedBooks' = <<>>
         /\ UNCHANGED <<explaining, loadingRelated>>
    ELSE /\ explaining' = FALSE
         /\ loadingRelated' = FALSE
         /\ UNCHANGED <<selectedResult, historyStack, explanation,
                        relatedBooks>>

\* variant: the stack is kept when the panel is closed
handlePopState_KeepsStack ==
    IF selectedResult # None
    THEN /\ selectedResult' = None
         /\ historyStack' = historyStack
         /\ explanation' = <<>>
         /\ relatedBooks' = <<>>
         /\ UNCHANGED <<explaining, loadingRelated>>
    ELSE UNCHANGED <<selectedResult, historyStack, explanation, explaining,
                     relatedBooks, loadingRelated>>

\* variant: one level is unwound per popstate
handlePopState_SingleStep ==
    IF selectedResult # None
    THEN /\ selectedResult' = IF Len(historyStack) > 0
                              THEN historyStack[Len(historyStack)] ELSE None
         /\ historyStack' = SubSeq(historyStack, 1, Len(historyStack) - 1)
         /\ explanation' = <<>>
         /\ relatedBooks' = <<>>
         /\ UNCHANGED <<explaining, loadingRelated>>
    ELSE UNCHANGED <<selectedResult, historyStack, explanation, explaining,
                     relatedBooks, loadingRelated>>

handlePopState ==
    IF selectedResult # None
    THEN /\ selectedResult' = None
         /\ historyStack' = <<>>
         /\ explanation' = <<>>
         /\ relatedBooks' = <<>>
         /\ UNCHANGED <<explaining, loadingRelated>>
    ELSE UNCHANGED <<selectedResult, historyStack, explanation, explaining,
                     relatedBooks, loadingRelated>>

\* the browser moves one entry back: a modal entry, if one is recorded, is
\* unwound
TraverseBack == hostEntries' = IF hostEntries > 0 THEN hostEntries - 1 ELSE 0

(***************************************************************************)
(* The continuation of Promise.allSettled, App.tsx:263-269 (handleReadMore)*)
(* and App.tsx:287-290 (handleBack): the same four updates in both.        *)
(***************************************************************************)
\* variant: loadingRelated is cleared only by a fulfilled request
Continuation_KeepsLoadingOnFailure(p, explStatus, relStatus, value) ==
    /\ explanation' = IF explStatus = "fulfilled" THEN <<p.frame>>
                      ELSE explanation
    /\ relatedBooks' = IF relStatus = "fulfilled" THEN value ELSE relatedBooks
    /\ explaining' = FALSE
    /\ loadingRelated' = IF relStatus = "fulfilled" THEN FALSE
                         ELSE loadingRelated

\* p is the settled pair, expl and related the two results allSettled hands
\* over: expl.value is the explanation of p.frame, related.value is value
Continuation(p, explStatus, relStatus, value) ==
    /\ explanation' = IF explStatus = "fulfilled" THEN <<p.frame>>
                      ELSE explanation
    /\ relatedBooks' = IF relStatus = "fulfilled" THEN value ELSE relatedBooks
    /\ explaining' = FALSE
    /\ loadingRelated' = FALSE

Outcomes == {"fulfilled", "rejected"}

\* variant: the continuation also empties the history stack
Settled_ClearsHistory(p, e) ==
    /\ IF e.expl # "pending" /\ e.rel # "pending"
       THEN /\ \E explStatus \in Outcomes, relStatus \in Outcomes :
                 /\ \E value \in RelatedValues(e.frame, relStatus) :
                        Continuation(e, explStatus, relStatus, value)
                 /\ RanContinuation(e, explStatus, relStatus)
            /\ inflight' = inflight (-) SetToBag({p})
            /\ historyStack' = <<>>
       ELSE /\ inflight' = (inflight (-) SetToBag({p})) (+) SetToBag({e})
            /\ UNCHANGED <<enrich, historyStack>>
            /\ Ran("settle", None)
    /\ UNCHANGED <<query, selectedResult, requested, hostEntries, pendingBack>>

\* request pair p becomes e. While one request is pending nothing runs; once
\* both have settled allSettled continues, and the outcome of each request
\* is first read there
Settled(p, e) ==
    /\ IF e.expl # "pending" /\ e.rel # "pending"
       THEN /\ \E explStatus \in Outcomes, relStatus \in Outcomes :
                 /\ \E value \in RelatedValues(e.frame, relStatus) :
                        Continuation(e, explStatus, relStatus, value)
                 /\ RanContinuation(e, explStatus, relStatus)
            /\ inflight' = inflight (-) SetToBag({p})
       ELSE /\ inflight' = (inflight (-) SetToBag({p})) (+) SetToBag({e})
            /\ UNCHANGED enrich
            /\ Ran("settle", None)
    /\ UNCHANGED <<query, selectedResult, historyStack, requested,
                   hostEntries, pendingBack>>

(***************************************************************************)
(* Events                                                                  *)
(***************************************************************************)
\* BookCard onClick, App.tsx:498
Open(r) == handleReadMore(r, FALSE) /\ Ran("open", r)

\* relatedBooks.map onClick, App.tsx:584-585: handleReadMore(rel)
RelatedClick(r) ==
    /\ selectedResult # None
    /\ ~loadingRelated
    /\ r \in Range(relatedBooks)
    /\ handleReadMore(r, FALSE)
    /\ Ran("related", r)

\* handleReadMore called with isDrillingDown = true
DrillInto(r) == handleReadMore(r, TRUE) /\ Ran("drill", r)

\* Back button, App.tsx:520
Back == handleBack /\ Ran("back", None)

\* backdrop and close button, App.tsx:514-516
Dismiss ==
    /\ selectedResult # None
    /\ pendingBack < MaxPending
    /\ closeModal
    /\ Ran("close", None)

\* the backdrop or the close button clicked again while a traversal queued by
\* an earlier click has not been delivered: the panel is still rendered
DismissAgain ==
    /\ selectedResult # None
    /\ pendingBack > 0
    /\ pendingBack < MaxRepeat
    /\ closeModal
    /\ Ran("close", None)

\* the traversal queued by window.history.back() happens; popstate fires
DeliverBack ==
    /\ pendingBack > 0
    /\ pendingBack' = pendingBack - 1
    /\ TraverseBack
    /\ handlePopState
    /\ UNCHANGED <<query, inflight, requested>>
    /\ Ran("popstateAfterBack", None)

\* the user's back button or gesture while the modal entry is on top
NativeBack ==
    /\ hostEntries > 0
    /\ TraverseBack
    /\ handlePopState
    /\ UNCHANGED <<query, inflight, requested, pendingBack>>
    /\ Ran("popstate", None)

\* setQuery, App.tsx:14; the search controls lie under the modal backdrop
SetQuery(q) ==
    /\ selectedResult = None
    /\ query' = q
    /\ UNCHANGED <<selectedResult, historyStack, explanation, explaining,
                   relatedBooks, loadingRelated, inflight, requested,
                   hostEntries, pendingBack>>
    /\ Ran("query", None)

\* api.explainRecommendation of pair p settles
SettleExplanation(p) ==
    /\ p.expl = "pending"
    /\ Settled(p, [p EXCEPT !.expl = "settled"])

\* api.getRelatedBooks of pair p settles
SettleRelated(p) ==
    /\ p.rel = "pending"
    /\ Settled(p, [p EXCEPT !.rel = "settled"])

ExplanationSettles == \E p \in BagToSet(inflight) : SettleExplanation(p)

RelatedSettles == \E p \in BagToSet(inflight) : SettleRelated(p)

Next ==
    \/ \E r \in Frames : Open(r)
    \/ \E r \in Frames : RelatedClick(r)
    \/ \E r \in Frames : DrillInto(r)
    \/ Back
    \/ Dismiss
    \/ DeliverBack
    \/ NativeBack
    \/ ExplanationSettles
    \/ RelatedSettles

\* the panel alone: the search box is left as constructed
Spec == Init /\ [][Next]_vars

\* the panel together with the search box
Search == \E q \in Queries : SetQuery(q)

NextSearch == Next \/ Search

SpecSearch == Init /\ [][NextSearch]_vars

\* the panel with dismissal repeated before the traversal is delivered
NextRepeat == Next \/ DismissAgain

SpecRepeat == Init /\ [][NextRepeat]_vars

\* the panel when every request issued settles in the end
LiveSpec ==
    /\ Spec
    /\ WF_vars(ExplanationSettles)
    /\ WF_vars(RelatedSettles)

TypeOK ==
    /\ query \in Queries
    /\ selectedResult \in Frames \cup {None}
    /\ Len(historyStack) <= MaxDepth
    /\ Range(historyStack) \subseteq Frames
    /\ explaining \in BOOLEAN
    /\ loadingRelated \in BOOLEAN
    /\ BagCardinality(inflight) <= MaxInFlight
    /\ hostEntries \in Nat
    /\ pendingBack \in 0..MaxPending

(***************************************************************************)
(* Properties                                                              *)
(***************************************************************************)
IsPopState(op) == op \in {"popstate", "popstateAfterBack"}

\* C1: results of a request pair issued for frame A that arrive after a
\* later navigation made a different frame current leave explanation,
\* relatedBooks, explaining and loadingRelated as they were.
StaleResultsDiscarded ==
    [][(/\ last'.op = "continue"
        /\ ~last'.latest
        /\ selectedResult # None
        /\ selectedResult # last'.frame)
       => UNCHANGED enrich]_vars

\* C2: handleReadMore(frame, true) with a frame selected appends that frame
\* to historyStack, selects the given frame, grows the stack by one and
\* leaves the earlier elements in place.
DrillAppendsCurrent ==
    [][(last'.op = "drill" /\ selectedResult # None)
       => /\ historyStack' = Append(historyStack, selectedResult)
          /\ selectedResult' = last'.frame
          /\ Len(historyStack') + 1 = Len(historyStack) + 2
          /\ SubSeq(historyStack', 1, Len(historyStack)) = historyStack]_vars

DrillWitness ==
    /\ last.op = "drill"
    /\ last.prevSize = 2
    /\ Len(historyStack) = 2
    /\ selectedResult = last.frame

\* C3: a click on a related item of the open panel puts the frame shown
\* before the click at the end of historyStack and selects the clicked item.
RelatedClickDrillsDown ==
    [][last'.op = "related"
       => /\ historyStack' = Append(historyStack, selectedResult)
          /\ selectedResult' = last'.frame]_vars

\* C4: handleBack with a non-empty historyStack selects its last element
\* and removes that element; open(A), drill(B), drill(C), back gives
\* selectedResult = B and historyStack = <<A>>.
BackPopsLast ==
    [][(last'.op = "back" /\ Len(historyStack) > 0)
       => /\ selectedResult' = historyStack[Len(historyStack)]
          /\ historyStack' = SubSeq(historyStack, 1, Len(historyStack) - 1)
      ]_vars

BackWitness ==
    /\ last.op = "back"
    /\ last.prevSize = 3
    /\ selectedResult = "B"
    /\ historyStack = <<"A">>

\* C5: a popstate event delivered while a frame is selected leaves no frame
\* selected and an empty historyStack in that one step, at any depth.
PopStateCollapses ==
    [][(IsPopState(last'.op) /\ selectedResult # None)
       => selectedResult' = None /\ historyStack' = <<>>]_vars

PopStateWitness ==
    /\ last.op = "popstate"
    /\ last.prevSize >= 2
    /\ selectedResult = None
    /\ historyStack = <<>>

\* C6: the number of modal entries pushed to the browser history and not
\* unwound is 1 while a frame is selected and 0 while none is.
HostHistoryLink == hostEntries = IF selectedResult # None THEN 1 ELSE 0

HostHistoryLinkWitness ==
    /\ last.op = "back"
    /\ last.prevSize = 3
    /\ selectedResult # None
    /\ hostEntries = 1

\* C7: closeModal queues one history.back() and leaves selectedResult and
\* historyStack alone; popstate handling queues no history.back(); the panel
\* is cleared only by a popstate step, which unwinds exactly one entry.
DismissUnwindsOnce ==
    [][/\ last'.op = "close"
          => /\ pendingBack' = pendingBack + 1
             /\ hostEntries' = hostEntries
             /\ UNCHANGED nav
       /\ IsPopState(last'.op) => pendingBack' <= pendingBack
       /\ (selectedResult # None /\ selectedResult' = None)
          => /\ IsPopState(last'.op)
             /\ hostEntries' = hostEntries - 1
             /\ historyStack' = <<>>]_vars

DismissWitness ==
    /\ last.op = "popstateAfterBack"
    /\ last.prevSize >= 1
    /\ selectedResult = None
    /\ hostEntries = 0
    /\ pendingBack = 0

\* C8: handleReadMore(frame) with isDrillingDown = false selects the frame
\* and empties historyStack, whether or not a panel was open.
OpenReplacesStack ==
    [][last'.op = "open"
       => selectedResult' = last'.frame /\ historyStack' = <<>>]_vars

OpenWitness ==
    /\ last.op = "open"
    /\ last.prevSize >= 2
    /\ selectedResult = last.frame
    /\ historyStack = <<>>

\* C9: an open pushes a browser history entry exactly when no frame is
\* selected; an open with a frame selected pushes none.
OpenRecordsOnce ==
    [][last'.op = "open"
       => hostEntries' = IF selectedResult = None
                         THEN hostEntries + 1 ELSE hostEntries]_vars

OpenRecordsOnceWitness ==
    /\ last.op = "open"
    /\ last.prevSize = 1
    /\ hostEntries = 1

\* C10: every navigation that selects a frame (open, related click, drill,
\* back with a non-empty stack) leaves explanation null, relatedBooks
\* empty, explaining and loadingRelated true.
NavigationResetsEnrichment ==
    [][(\/ last'.op \in {"open", "related", "drill"}
        \/ (last'.op = "back" /\ Len(historyStack) > 0))
       => /\ explanation' = <<>>
          /\ relatedBooks' = <<>>
          /\ explaining' = TRUE
          /\ loadingRelated' = TRUE]_vars

ResetWitness ==
    /\ last.op = "back"
    /\ last.prevSize >= 2
    /\ explanation = <<>>
    /\ relatedBooks = <<>>
    /\ explaining
    /\ loadingRelated

\* the request pair issued by the latest navigation, while the frame it was
\* issued for is shown and the pair has not continued
CurrentPairs ==
    {p \in BagToSet(inflight) : p.latest /\ p.frame = selectedResult}

\* C11: while the explanation request issued for the frame shown is
\* outstanding explaining is true, and while its related request is
\* outstanding loadingRelated is true, whatever else has happened since.
LoadingWhileOutstanding ==
    \A p \in CurrentPairs :
        /\ p.expl = "pending" => explaining
        /\ p.rel = "pending" => loadingRelated

\* C12: once one request of the frame shown has settled its own flag is
\* cleared, also while the other request is outstanding.
IndependentCompletion ==
    \A p \in CurrentPairs :
        /\ p.expl = "settled" => ~explaining
        /\ p.rel = "settled" => ~loadingRelated

\* C13: a rejected explanation request of the frame shown leaves explanation
\* null and explaining false, and the navigation state as it was.
FailedExplanationIsAbsent ==
    [][(/\ last'.op = "continue"
        /\ last'.latest
        /\ last'.frame = selectedResult
        /\ last'.expl = "rejected")
       => /\ explanation' = <<>>
          /\ explaining' = FALSE
          /\ UNCHANGED nav]_vars

\* C14: a rejected related request of the frame shown leaves relatedBooks
\* empty and loadingRelated false whatever the explanation request did, and
\* a request fulfilled with no books ends in the same state.
FailedRelatedIsEmpty ==
    [][(/\ last'.op = "continue"
        /\ last'.latest
        /\ last'.frame = selectedResult)
       => /\ last'.rel = "rejected"
             => relatedBooks' = <<>> /\ loadingRelated' = FALSE
          /\ (last'.rel = "fulfilled" /\ relatedBooks' = <<>>)
             => loadingRelated' = FALSE]_vars

DrillWithoutCurrentRejected ==
    [][(last'.op = "drill" /\ selectedResult = None)
       => UNCHANGED <<nav, hostEntries>>]_vars

\* C17: going back with an empty history stack changes nothing: the frame
\* shown, the stack, the enrichment state and the host history stay as they
\* are and no request is issued
BackOnEmptyIsNoOp ==
    [][(last'.op = "back" /\ historyStack = <<>>)
       => UNCHANGED <<query, nav, enrich, host, inflight, requested>>]_vars

BackOnEmptyWitness ==
    /\ last.op = "back" /\ last.prevSize = 1
    /\ selectedResult # None /\ historyStack = <<>> /\ explaining

\* C18 as stated: every open and every drill-down adds one to the stack size
\* and every back takes one away, down to the open that began the episode
StackSizeCounts ==
    [][/\ last'.op \in {"open", "related", "drill"}
            => StackSize' = StackSize + 1
       /\ last'.op = "back"
            => StackSize' = IF StackSize > 1 THEN StackSize - 1 ELSE StackSize]_vars

\* C18: an open begins the count again at one whatever the size was, a
\* drill-down adds one, a back takes one away but never the last frame, and
\* fetch results and the request to close leave the size alone
StackSizeAccounting ==
    [][/\ last'.op \in {"open", "related"} => StackSize' = 1
       /\ last'.op = "drill" => StackSize' = StackSize + 1
       /\ last'.op = "back"
            => StackSize' = IF StackSize > 1 THEN StackSize - 1 ELSE StackSize
       /\ last'.op \in {"settle", "continue", "close", "query"}
            => StackSize' = StackSize]_vars

StackSizeWitness ==
    /\ last.op = "open" /\ last.prevSize = 3
    /\ StackSize = 1 /\ hostEntries = 1

\* C19: in every reachable state the history stack is empty when no frame is
\* shown
HistoryNeedsCurrent == selectedResult = None => historyStack = <<>>

HistoryNeedsCurrentWitness ==
    /\ last.op = "popstate" /\ last.prevSize = 3
    /\ selectedResult = None /\ historyStack = <<>> /\ inflight # EmptyBag

\* C20: once no request is outstanding, the explanation and the related
\* books shown are outcomes of the requests issued for the frame shown
NewerEnrichWins ==
    (inflight = EmptyBag /\ selectedResult # None)
        => /\ explanation \in {<<>>, <<selectedResult>>}
           /\ relatedBooks \in RelatedAnswers(selectedResult)

IsNavigation(op) == op \in {"open", "related", "drill"}

\* C21: a drill-down from a frame shown and a back neither push a browser
\* history entry nor queue a traversal, at any depth
DrillAndBackLeaveHostAlone ==
    [][((last'.op = "drill" /\ selectedResult # None) \/ last'.op = "back")
       => UNCHANGED host]_vars

DrillAndBackWitness ==
    /\ last.op = "drill" /\ last.prevSize = 2 /\ StackSize = 3
    /\ hostEntries = 1 /\ pendingBack = 0

\* C22: when an explanation and related books are both held, they are the
\* explanation and the related books of the same book
SameInvocation ==
    (explanation # <<>> /\ relatedBooks # <<>>)
        => relatedBooks = RelatedOf(explanation[1])

\* C23: in every reachable state there is no explanation while explaining is
\* set and there are no related books while loadingRelated is set
AbsentWhileLoading ==
    /\ explaining => explanation = <<>>
    /\ loadingRelated => relatedBooks = <<>>

AbsentWhileLoadingWitness ==
    /\ last.op = "related" /\ explaining /\ loadingRelated
    /\ explanation = <<>> /\ relatedBooks = <<>>

\* the request pair a navigation step hands to Promise.allSettled for frame f
FreshPair(f) ==
    [frame |-> f, expl |-> "pending", rel |-> "pending", latest |-> TRUE]

\* C24: every open, drill-down and effective back adds exactly one request
\* pair, for the frame it selects, with both requests pending; the settling
\* of a request adds none, a continuation takes its own pair away and adds
\* none, and no other step changes the requests in flight
RequestsPerNavigation ==
    [][/\ (IsNavigation(last'.op) \/ (last'.op = "back" /\ historyStack # <<>>))
          => /\ BagCardinality(inflight') = BagCardinality(inflight) + 1
             /\ CopiesIn(FreshPair(selectedResult'), inflight') = 1
             /\ \A p \in BagToSet(inflight') :
                    p.latest => p = FreshPair(selectedResult')
       /\ last'.op = "settle"
          => BagCardinality(inflight') = BagCardinality(inflight)
       /\ last'.op = "continue"
          => BagCardinality(inflight') = BagCardinality(inflight) - 1
       /\ (\/ last'.op \in {"close", "popstate", "popstateAfterBack", "query"}
           \/ (last'.op = "back" /\ historyStack = <<>>))
          => UNCHANGED inflight]_vars

RequestsWitness ==
    /\ last.op = "back" /\ last.prevSize = 2
    /\ BagCardinality(inflight) = 2
    /\ CopiesIn(FreshPair(selectedResult), inflight) = 1

\* C25: the settling of a request and the continuation that follows,
\* whatever the outcomes and whether or not the pair is the latest, leave
\* the frame shown, the history stack and the browser history as they were
ResolutionKeepsNavigation ==
    [][last'.op \in {"settle", "continue"} => UNCHANGED <<nav, host>>]_vars

ResolutionWitness ==
    /\ last.op = "continue" /\ ~last.latest /\ last.expl = "rejected"
    /\ StackSize = 3 /\ hostEntries = 1

\* C26: closeModal called while a traversal queued by an earlier call has not
\* been delivered queues no further traversal
DismissTriggersOnce ==
    [][(last'.op = "close" /\ pendingBack > 0)
       => pendingBack' = pendingBack]_vars

\* C27: in every reachable state with no frame shown there is no explanation
\* and there are no related books
ClosedPanelHoldsNothing ==
    selectedResult = None => (explanation = <<>> /\ relatedBooks = <<>>)

\* C28: a popstate event delivered while no frame is shown leaves the frame,
\* the history stack, the explanation, the related books and both loading
\* flags as they were, pushes no browser history entry and queues no
\* traversal
PopStateWithoutPanel ==
    [][(IsPopState(last'.op) /\ selectedResult = None)
       => /\ UNCHANGED <<nav, enrich>>
          /\ hostEntries' <= hostEntries
          /\ pendingBack' <= pendingBack]_vars

PopStateWithoutPanelWitness ==
    /\ last.op = "popstateAfterBack" /\ last.prevSize = 0
    /\ selectedResult = None /\ explaining /\ loadingRelated

\* C29: a drill-down from a frame shown keeps that frame and the stack below
\* it where the back that follows at once finds them: the back selects the
\* frame shown before the drill-down, leaves the history stack of before the
\* drill-down, and resets the enrichment state to loading
DrillThenBackRestores ==
    [][/\ (last'.op = "drill" /\ selectedResult # None)
          => /\ historyStack'[Len(historyStack')] = selectedResult
             /\ SubSeq(historyStack', 1, Len(historyStack') - 1) = historyStack
       /\ (last.op = "drill" /\ last.prevSize >= 1 /\ last'.op = "back")
          => /\ selectedResult' = historyStack[Len(historyStack)]
             /\ historyStack' = SubSeq(historyStack, 1, Len(historyStack) - 1)
             /\ StackSize' = last.prevSize
             /\ explaining' /\ loadingRelated'
             /\ explanation' = <<>> /\ relatedBooks' = <<>>]_vars

\* the frame drilled into was left again before either of its requests
\* settled
DrillThenBackWitness ==
    /\ last.op = "back" /\ last.prevSize = 3 /\ StackSize = 2
    /\ pendingBack = 0
    /\ \E f \in Frames :
          inflight = SetToBag({FreshPair(selectedResult),
                               [FreshPair(f) EXCEPT !.latest = FALSE]})

\* C30: while a loading flag is set, both flags are cleared in the end; with
\* no request left in flight both are clear; and flags that are clear stay
\* clear until the next open, drill-down or back
LoadingTerminates ==
    /\ (explaining \/ loadingRelated) ~> (~explaining /\ ~loadingRelated)
    /\ [](inflight = EmptyBag => (~explaining /\ ~loadingRelated))
    /\ [][(/\ ~explaining /\ ~loadingRelated
           /\ ~IsNavigation(last'.op) /\ last'.op # "back")
          => (~explaining' /\ ~loadingRelated')]_vars

LoadingTerminatesWitness ==
    /\ last.op = "continue" /\ last.latest /\ last.rel = "rejected"
    /\ selectedResult = last.frame /\ inflight = EmptyBag
    /\ ~explaining /\ ~loadingRelated

====
